---- MODULE Spec2Model ----
(***************************************************************************)
(* The AdminProducts page (src/src/pages/admin/AdminProducts.tsx): the     *)
(* state the component owns, its mount effect, its four command handlers   *)
(* and the settlements of the remote calls they await.  Each action is one *)
(* run-to-completion step of the event loop: a handler up to its await, or *)
(* the continuation after the awaited promise settles.                     *)
(***************************************************************************)
EXTENDS Integers, Sequences, FiniteSets, Bags, TLC

(* ------------------------------ bounds -------------------------------- *)

\* ids the remote service holds before the page is opened: 1..NumSeed
NumSeed == 2
\* remote command calls (create, update, delete) issued in one behaviour
MaxCalls == 2
\* command calls issued in a behaviour checked for liveness
MaxLiveCalls == 1

(* ------------------------------ values -------------------------------- *)

\* the attributes of a product, opaque to the page: two distinguishable values
Vers == {"a", "b"}
\* the attributes a dialog submits; the service answers with any of Vers
Submitted == "a"
SeedIds == 1..NumSeed
\* the id of a create payload: a client-side placeholder, never a server id
PlaceholderId == 0
Errors == {"E1", "E2"}
\* the failure value of a rejected command call
CommandErrors == {"E3"}
\* null of useState<Error | null>
NoError == "null"
\* null of useState<Product | null>
NoProduct == [id |-> -1, ver |-> "a"]

Payload == [id : {PlaceholderId}, ver : {Submitted}]

Range(s) == {s[k] : k \in 1..Len(s)}
IdsOf(ps) == {ps[k].id : k \in 1..Len(ps)}
DistinctIds(ps) == \A j, k \in 1..Len(ps) : ps[j].id = ps[k].id => j = k

\* the ordered sequences the remote list call can resolve with: the service
\* holds products under the ids 1..NumSeed and lists each at most once
FetchResults ==
    {l \in UNION {[1..k -> [id : SeedIds, ver : {"a"}]] : k \in 0..NumSeed} :
        DistinctIds(l)}

(* ------------------------------- state -------------------------------- *)

VARIABLES
    products,                \* useState<Product[]>([])
    isLoading,               \* useState(true)
    error,                   \* useState<Error | null>(null)
    isCreateDialogOpen,      \* useState(false)
    isEditDialogOpen,        \* useState(false)
    selectedProductForEdit,  \* useState<Product | null>(null)
    mounted,                 \* the component is mounted (the effect has run, no teardown yet)
    fetchCall,               \* getProducts: "idle", "awaiting" (at the await), "done"
    createCalls,             \* handleCreateProduct invocations suspended at their await: a bag of newProduct
    updateCalls,             \* handleProductUpdate invocations suspended at their await: a bag of updatedProduct
    deleteCalls,             \* handleDeleteProduct invocations suspended at their await: a bag of productId
    issued,                  \* number of command calls issued so far
    serverNextId,            \* the remote service's next unassigned id
    last                     \* the step just taken: event, inputs, outcome of the handler's promise

vars == <<products, isLoading, error, isCreateDialogOpen, isEditDialogOpen,
          selectedProductForEdit, mounted, fetchCall, createCalls, updateCalls,
          deleteCalls, issued, serverNextId, last>>

\* the six useState cells of the component
state == <<products, isLoading, error, isCreateDialogOpen, isEditDialogOpen,
           selectedProductForEdit>>

\* the record of a step: the event, its inputs, the state of the promise the
\* handler returned, and the component's state before the step
Event(ev, payload, result, list, err, promise) ==
    [ev |-> ev, payload |-> payload, result |-> result, list |-> list,
     err |-> err, promise |-> promise, prev |-> state, raced |-> FALSE]

\* an id argument, carried in the payload slot of an event
IdArg(i) == [id |-> i, ver |-> "a"]

Init ==
    /\ products = <<>>
    /\ isLoading = TRUE
    /\ error = NoError
    /\ isCreateDialogOpen = FALSE
    /\ isEditDialogOpen = FALSE
    /\ selectedProductForEdit = NoProduct
    /\ mounted = FALSE
    /\ fetchCall = "idle"
    /\ createCalls = EmptyBag
    /\ updateCalls = EmptyBag
    /\ deleteCalls = EmptyBag
    /\ issued = 0
    /\ serverNextId = NumSeed + 1
    /\ last = [ev |-> "init", payload |-> NoProduct, result |-> NoProduct,
               list |-> <<>>, err |-> NoError, promise |-> "none",
               prev |-> <<<<>>, TRUE, NoError, FALSE, FALSE, NoProduct>>,
               raced |-> FALSE]

\* a render that draws the table and the dialogs beside the error message
ViewShownDespiteError == mounted /\ ~isLoading

\* the early returns of the render: the table and the dialogs exist only then
ViewShown == mounted /\ ~isLoading /\ error = NoError

\* lines 76-88: what the render returns
Screen ==
    IF isLoading THEN "spinner"
    ELSE IF error # NoError THEN "error"
    ELSE "main"

\* an indicator computed from the collection of the render before
EmptyIndicatorStale(ps) == Len(last.prev[1]) = 0

\* line 119: products.length === 0
EmptyIndicator(ps) == Len(ps) = 0

\* lines 119-123: the "No products found" paragraph is in the rendered output
NoProductsShown == Screen = "main" /\ EmptyIndicator(products)

(* --------------------------- initial load ----------------------------- *)

\* the mount effect: getProducts() up to its await
getProducts ==
    /\ ~mounted /\ fetchCall = "idle"
    /\ mounted' = TRUE
    /\ isLoading' = TRUE
    /\ error' = NoError
    /\ fetchCall' = "awaiting"
    /\ last' = Event("mount", NoProduct, NoProduct, <<>>, NoError, "none")
    /\ UNCHANGED <<products, isCreateDialogOpen, isEditDialogOpen,
                   selectedProductForEdit, createCalls, updateCalls,
                   deleteCalls, issued, serverNextId>>

\* the list ordered by id
RECURSIVE SortById(_)
SortById(ps) ==
    IF ps = <<>> THEN <<>>
    ELSE LET m == CHOOSE k \in 1..Len(ps) : \A j \in 1..Len(ps) : ps[k].id <= ps[j].id
         IN <<ps[m]>> \o SortById(SubSeq(ps, 1, m - 1) \o SubSeq(ps, m + 1, Len(ps)))

\* a load that re-orders what the service returned
SetFetchedSorted(prevProducts, fetchedProducts) == SortById(fetchedProducts)

\* line 30 and the finally: the list call resolved with fetchedProducts
SetFetched(prevProducts, fetchedProducts) == fetchedProducts

getProductsResolve(fetchedProducts) ==
    /\ fetchCall = "awaiting"
    /\ products' = SetFetched(products, fetchedProducts)
    /\ isLoading' = FALSE
    /\ fetchCall' = "done"
    /\ last' = Event("fetchOk", NoProduct, NoProduct, fetchedProducts, NoError, "fulfilled")
    /\ UNCHANGED <<error, isCreateDialogOpen, isEditDialogOpen,
                   selectedProductForEdit, mounted, createCalls, updateCalls,
                   deleteCalls, issued, serverNextId>>

\* a catch that drops the failure value
CaughtErrorDropped(err) == NoError

\* a getProducts whose setIsLoading(false) sits in the try, not in a finally
getProductsRejectNoFinally(err) ==
    /\ fetchCall = "awaiting"
    /\ error' = err
    /\ fetchCall' = "done"
    /\ last' = Event("fetchFail", NoProduct, NoProduct, <<>>, err, "fulfilled")
    /\ UNCHANGED <<products, isLoading, isCreateDialogOpen, isEditDialogOpen,
                   selectedProductForEdit, mounted, createCalls, updateCalls,
                   deleteCalls, issued, serverNextId>>

\* the catch and the finally: the list call rejected with err
CaughtError(err) == err

getProductsReject(err) ==
    /\ fetchCall = "awaiting"
    /\ error' = CaughtError(err)
    /\ isLoading' = FALSE
    /\ fetchCall' = "done"
    /\ last' = Event("fetchFail", NoProduct, NoProduct, <<>>, err, "fulfilled")
    /\ UNCHANGED <<products, isCreateDialogOpen, isEditDialogOpen,
                   selectedProductForEdit, mounted, createCalls, updateCalls,
                   deleteCalls, issued, serverNextId>>

\* the component is torn down; the effect returns no cleanup function, so
\* nothing else happens and the suspended calls stay suspended
unmount ==
    /\ mounted
    /\ mounted' = FALSE
    /\ last' = Event("unmount", NoProduct, NoProduct, <<>>, NoError, "none")
    /\ UNCHANGED <<products, isLoading, error, isCreateDialogOpen,
                   isEditDialogOpen, selectedProductForEdit, fetchCall,
                   createCalls, updateCalls, deleteCalls, issued, serverNextId>>

(* ------------------------------ create -------------------------------- *)

\* handleCreateProduct(newProduct) up to its await
handleCreateProduct(newProduct) ==
    /\ ViewShown /\ issued < MaxCalls
    /\ issued' = issued + 1
    /\ createCalls' = createCalls (+) SetToBag({newProduct})
    /\ last' = Event("createIssue", newProduct, NoProduct, <<>>, NoError, "pending")
    /\ UNCHANGED <<products, isLoading, error, isCreateDialogOpen,
                   isEditDialogOpen, selectedProductForEdit, mounted, fetchCall,
                   updateCalls, deleteCalls, serverNextId>>

\* the remote create capability: the canonical record carries a fresh id
CreateResults == [id : {serverNextId}, ver : Vers]

\* an updater that puts the new record first
PrependCreated(prevProducts, createdProduct) == <<createdProduct>> \o prevProducts

\* line 42: the updater of setProducts
AppendCreated(prevProducts, createdProduct) == Append(prevProducts, createdProduct)

handleCreateProductResolve(c, createdProduct) ==
    /\ BagIn(c, createCalls)
    /\ createCalls' = createCalls (-) SetToBag({c})
    /\ serverNextId' = serverNextId + 1
    /\ products' = AppendCreated(products, createdProduct)
    /\ last' = Event("createOk", c, createdProduct, <<>>, NoError, "fulfilled")
    /\ UNCHANGED <<isLoading, error, isCreateDialogOpen, isEditDialogOpen,
                   selectedProductForEdit, mounted, fetchCall, updateCalls,
                   deleteCalls, issued>>

\* a handler that catches the failure and fulfils
handleCreateProductRejectSwallowed(c, err) ==
    /\ BagIn(c, createCalls)
    /\ createCalls' = createCalls (-) SetToBag({c})
    /\ last' = Event("createFail", c, NoProduct, <<>>, err, "fulfilled")
    /\ UNCHANGED <<products, isLoading, error, isCreateDialogOpen,
                   isEditDialogOpen, selectedProductForEdit, mounted, fetchCall,
                   updateCalls, deleteCalls, issued, serverNextId>>

\* no try/catch around the await of line 41: the async function rejects
handleCreateProductReject(c, err) ==
    /\ BagIn(c, createCalls)
    /\ createCalls' = createCalls (-) SetToBag({c})
    /\ last' = Event("createFail", c, NoProduct, <<>>, err, "rejected")
    /\ UNCHANGED <<products, isLoading, error, isCreateDialogOpen,
                   isEditDialogOpen, selectedProductForEdit, mounted, fetchCall,
                   updateCalls, deleteCalls, issued, serverNextId>>

(* --------------------------- request-edit ----------------------------- *)

\* line 47: products.find((p) => p.id === productId); NoProduct for undefined
Find(ps, productId) ==
    IF \E k \in 1..Len(ps) : ps[k].id = productId
    THEN ps[CHOOSE k \in 1..Len(ps) :
                /\ ps[k].id = productId
                /\ \A j \in 1..(k - 1) : ps[j].id # productId]
    ELSE NoProduct

\* a handler without the if of line 48
EditSelectionUnguarded(productToEdit, prevSelected, prevOpen) == <<productToEdit, TRUE>>

\* lines 48-51: the new <<selectedProductForEdit, isEditDialogOpen>>
EditSelection(productToEdit, prevSelected, prevOpen) ==
    IF productToEdit # NoProduct
    THEN <<productToEdit, TRUE>>
    ELSE <<prevSelected, prevOpen>>

handleEditProduct(productId) ==
    /\ ViewShown
    /\ LET sel == EditSelection(Find(products, productId),
                                selectedProductForEdit, isEditDialogOpen)
       IN /\ selectedProductForEdit' = sel[1]
          /\ isEditDialogOpen' = sel[2]
    /\ last' = Event("requestEdit", IdArg(productId), NoProduct, <<>>, NoError, "none")
    /\ UNCHANGED <<products, isLoading, error, isCreateDialogOpen, mounted,
                   fetchCall, createCalls, updateCalls, deleteCalls, issued,
                   serverNextId>>

(* ------------------------------ update -------------------------------- *)

\* handleProductUpdate(updatedProduct) up to its await
handleProductUpdate(updatedProduct) ==
    /\ ViewShown /\ issued < MaxCalls
    /\ issued' = issued + 1
    /\ updateCalls' = updateCalls (+) SetToBag({updatedProduct})
    /\ last' = Event("updateIssue", updatedProduct, NoProduct, <<>>, NoError, "pending")
    /\ UNCHANGED <<products, isLoading, error, isCreateDialogOpen,
                   isEditDialogOpen, selectedProductForEdit, mounted, fetchCall,
                   createCalls, deleteCalls, serverNextId>>

\* the remote update capability: the canonical record of the submitted id,
\* its attributes as the service normalises them
UpdateResults(updatedProduct) == [id : {updatedProduct.id}, ver : Vers]

\* an updater that keeps the record of the call that resolved first
ReplaceFirstOnly(prevProducts, result) ==
    IF last.ev = "updateOk" /\ last.result.id = result.id
    THEN prevProducts
    ELSE [k \in 1..Len(prevProducts) |->
            IF prevProducts[k].id = result.id THEN result ELSE prevProducts[k]]

\* an updater that inserts the result when no entry has its id
ReplaceOrInsert(prevProducts, result) ==
    IF \E k \in 1..Len(prevProducts) : prevProducts[k].id = result.id
    THEN [k \in 1..Len(prevProducts) |->
            IF prevProducts[k].id = result.id THEN result ELSE prevProducts[k]]
    ELSE Append(prevProducts, result)

\* an updater that drops the old entry and appends the result
ReplaceAtEnd(prevProducts, result) ==
    IF \E k \in 1..Len(prevProducts) : prevProducts[k].id = result.id
    THEN Append(SelectSeq(prevProducts, LAMBDA p : p.id # result.id), result)
    ELSE prevProducts

\* an updater whose map callback lost its test
ReplaceEvery(prevProducts, result) == [k \in 1..Len(prevProducts) |-> result]

\* lines 57-59: prevProducts.map((p) => (p.id === result.id ? result : p))
ReplaceById(prevProducts, result) ==
    [k \in 1..Len(prevProducts) |->
        IF prevProducts[k].id = result.id THEN result ELSE prevProducts[k]]

\* the step before was the resolution of another update call for the same id:
\* no call is issued by a resolution, so the two calls were in flight together
RacedWith(result) == last.ev = "updateOk" /\ last.result.id = result.id

handleProductUpdateResolve(c, result) ==
    /\ BagIn(c, updateCalls)
    /\ updateCalls' = updateCalls (-) SetToBag({c})
    /\ products' = ReplaceById(products, result)
    /\ last' = [Event("updateOk", c, result, <<>>, NoError, "fulfilled")
                 EXCEPT !.raced = RacedWith(result)]
    /\ UNCHANGED <<isLoading, error, isCreateDialogOpen, isEditDialogOpen,
                   selectedProductForEdit, mounted, fetchCall, createCalls,
                   deleteCalls, issued, serverNextId>>

\* a catch that reports the failure through the load's error state
handleProductUpdateRejectSetsError(c, err) ==
    /\ BagIn(c, updateCalls)
    /\ updateCalls' = updateCalls (-) SetToBag({c})
    /\ error' = err
    /\ last' = Event("updateFail", c, NoProduct, <<>>, err, "fulfilled")
    /\ UNCHANGED <<products, isLoading, isCreateDialogOpen,
                   isEditDialogOpen, selectedProductForEdit, mounted, fetchCall,
                   createCalls, deleteCalls, issued, serverNextId>>

\* lines 61-63: the catch logs the error; the async function fulfils
handleProductUpdateReject(c, err) ==
    /\ BagIn(c, updateCalls)
    /\ updateCalls' = updateCalls (-) SetToBag({c})
    /\ last' = Event("updateFail", c, NoProduct, <<>>, err, "fulfilled")
    /\ UNCHANGED <<products, isLoading, error, isCreateDialogOpen,
                   isEditDialogOpen, selectedProductForEdit, mounted, fetchCall,
                   createCalls, deleteCalls, issued, serverNextId>>

(* ------------------------------ delete -------------------------------- *)

\* a handler that removes the row before the remote call has answered
handleDeleteProductOptimistic(productId) ==
    /\ ViewShown /\ issued < MaxCalls
    /\ issued' = issued + 1
    /\ products' = SelectSeq(products, LAMBDA p : p.id # productId)
    /\ deleteCalls' = deleteCalls (+) SetToBag({productId})
    /\ last' = Event("deleteIssue", IdArg(productId), NoProduct, <<>>, NoError, "pending")
    /\ UNCHANGED <<isLoading, error, isCreateDialogOpen,
                   isEditDialogOpen, selectedProductForEdit, mounted, fetchCall,
                   createCalls, updateCalls, serverNextId>>

\* handleDeleteProduct(productId) up to its await
handleDeleteProduct(productId) ==
    /\ ViewShown /\ issued < MaxCalls
    /\ issued' = issued + 1
    /\ deleteCalls' = deleteCalls (+) SetToBag({productId})
    /\ last' = Event("deleteIssue", IdArg(productId), NoProduct, <<>>, NoError, "pending")
    /\ UNCHANGED <<products, isLoading, error, isCreateDialogOpen,
                   isEditDialogOpen, selectedProductForEdit, mounted, fetchCall,
                   createCalls, updateCalls, serverNextId>>

\* lines 69-71: prevProducts.filter((p) => p.id !== productId)
FilterOut(prevProducts, productId) ==
    SelectSeq(prevProducts, LAMBDA p : p.id # productId)

\* a handler that removes the entry whenever the call did not throw
AfterDeleteUnchecked(prevProducts, productId, success) == FilterOut(prevProducts, productId)

\* lines 68-73: the collection after the delete call resolved with success
AfterDelete(prevProducts, productId, success) ==
    IF success THEN FilterOut(prevProducts, productId) ELSE prevProducts

handleDeleteProductResolve(c, success) ==
    /\ BagIn(c, deleteCalls)
    /\ deleteCalls' = deleteCalls (-) SetToBag({c})
    /\ products' = AfterDelete(products, c, success)
    /\ last' = Event(IF success THEN "deleteTrue" ELSE "deleteFalse", IdArg(c), NoProduct, <<>>, NoError, "fulfilled")
    /\ UNCHANGED <<isLoading, error, isCreateDialogOpen, isEditDialogOpen,
                   selectedProductForEdit, mounted, fetchCall, createCalls,
                   updateCalls, issued, serverNextId>>

\* no try/catch around the await of line 67: the async function rejects
handleDeleteProductReject(c, err) ==
    /\ BagIn(c, deleteCalls)
    /\ deleteCalls' = deleteCalls (-) SetToBag({c})
    /\ last' = Event("deleteFail", IdArg(c), NoProduct, <<>>, err, "rejected")
    /\ UNCHANGED <<products, isLoading, error, isCreateDialogOpen,
                   isEditDialogOpen, selectedProductForEdit, mounted, fetchCall,
                   createCalls, updateCalls, issued, serverNextId>>

(* ------------------------------ dialogs ------------------------------- *)

\* onOpenChange of CreateProductDialog (line 106)
setIsCreateDialogOpen(open) ==
    /\ ViewShown
    /\ isCreateDialogOpen' = open
    /\ last' = Event(IF open THEN "createDialogOpen" ELSE "createDialogClose", NoProduct, NoProduct, <<>>, NoError, "none")
    /\ UNCHANGED <<products, isLoading, error, isEditDialogOpen,
                   selectedProductForEdit, mounted, fetchCall, createCalls,
                   updateCalls, deleteCalls, issued, serverNextId>>

\* an onOpenChange that forgets the selection when the dialog closes
setIsEditDialogOpenClearing(open) ==
    /\ ViewShown
    /\ isEditDialogOpen' = open
    /\ selectedProductForEdit' = IF open THEN selectedProductForEdit ELSE NoProduct
    /\ last' = Event(IF open THEN "editDialogOpen" ELSE "editDialogClose", NoProduct, NoProduct, <<>>, NoError, "none")
    /\ UNCHANGED <<products, isLoading, error, isCreateDialogOpen,
                   mounted, fetchCall, createCalls,
                   updateCalls, deleteCalls, issued, serverNextId>>

\* onOpenChange of EditProductDialog (line 114)
setIsEditDialogOpen(open) ==
    /\ ViewShown
    /\ isEditDialogOpen' = open
    /\ last' = Event(IF open THEN "editDialogOpen" ELSE "editDialogClose", NoProduct, NoProduct, <<>>, NoError, "none")
    /\ UNCHANGED <<products, isLoading, error, isCreateDialogOpen,
                   selectedProductForEdit, mounted, fetchCall, createCalls,
                   updateCalls, deleteCalls, issued, serverNextId>>

\* the ids a row action can name: every id the service has assigned (a row
\* may be stale, its product deleted since it was drawn)
KnownIds == 1..(serverNextId - 1)

\* what EditProductDialog can submit to onProductUpdate: while it is open, its
\* product prop (line 116) with the attributes edited
EditDialogSubmits ==
    IF isEditDialogOpen /\ selectedProductForEdit # NoProduct
    THEN [id : {selectedProductForEdit.id}, ver : {Submitted}]
    ELSE {}

Next ==
    \/ getProducts
    \/ \E l \in FetchResults : getProductsResolve(l)
    \/ \E e \in Errors : getProductsReject(e)
    \/ unmount
    \/ \E p \in Payload : handleCreateProduct(p)
    \/ \E c \in BagToSet(createCalls) : \E r \in CreateResults : handleCreateProductResolve(c, r)
    \/ \E c \in BagToSet(createCalls) : \E e \in CommandErrors : handleCreateProductReject(c, e)
    \/ \E i \in KnownIds : handleEditProduct(i)
    \/ \E p \in EditDialogSubmits : handleProductUpdate(p)
    \/ \E c \in BagToSet(updateCalls) : \E r \in UpdateResults(c) : handleProductUpdateResolve(c, r)
    \/ \E c \in BagToSet(updateCalls) : \E e \in CommandErrors : handleProductUpdateReject(c, e)
    \/ \E i \in KnownIds : handleDeleteProduct(i)
    \/ \E c \in BagToSet(deleteCalls) : \E b \in BOOLEAN : handleDeleteProductResolve(c, b)
    \/ \E c \in BagToSet(deleteCalls) : \E e \in CommandErrors : handleDeleteProductReject(c, e)
    \/ \E b \in BOOLEAN : setIsCreateDialogOpen(b)
    \/ \E b \in BOOLEAN : setIsEditDialogOpen(b)


Spec == Init /\ [][Next]_vars

\* the awaited fetchProducts() promise settles, one way or the other
fetchSettles ==
    \/ \E l \in FetchResults : getProductsResolve(l)
    \/ \E e \in Errors : getProductsReject(e)

\* the page when the remote list call is sure to settle, followed through the
\* first MaxLiveCalls commands
NextLive == Next /\ issued' <= MaxLiveCalls

SpecLive == Init /\ [][NextLive]_vars /\ WF_vars(fetchSettles)

(* --------------------------- re-activation ---------------------------- *)

\* the effect runs again on a component whose state was kept (the teardown
\* and re-run of effects that React's StrictMode performs on mount, or any
\* re-activation that preserves state): getProducts() up to its await, while
\* the list call of the earlier run, never cancelled, may still be in flight.
\* fetchCall = "racing": two list calls in flight; a third is not modelled.
getProductsAgain ==
    /\ ~mounted /\ fetchCall \in {"awaiting", "done"}
    /\ mounted' = TRUE
    /\ isLoading' = TRUE
    /\ error' = NoError
    /\ fetchCall' = IF fetchCall = "awaiting" THEN "racing" ELSE "awaiting"
    /\ last' = Event("remount", NoProduct, NoProduct, <<>>, NoError, "none")
    /\ UNCHANGED <<products, isCreateDialogOpen, isEditDialogOpen,
                   selectedProductForEdit, createCalls, updateCalls,
                   deleteCalls, issued, serverNextId>>

\* one of two list calls in flight resolves: line 30 and the finally
getProductsResolveRacing(fetchedProducts) ==
    /\ fetchCall = "racing"
    /\ products' = SetFetched(products, fetchedProducts)
    /\ isLoading' = FALSE
    /\ fetchCall' = "awaiting"
    /\ last' = Event("fetchOk", NoProduct, NoProduct, fetchedProducts, NoError, "fulfilled")
    /\ UNCHANGED <<error, isCreateDialogOpen, isEditDialogOpen,
                   selectedProductForEdit, mounted, createCalls, updateCalls,
                   deleteCalls, issued, serverNextId>>

\* one of two list calls in flight rejects: the catch and the finally
getProductsRejectRacing(err) ==
    /\ fetchCall = "racing"
    /\ error' = CaughtError(err)
    /\ isLoading' = FALSE
    /\ fetchCall' = "awaiting"
    /\ last' = Event("fetchFail", NoProduct, NoProduct, <<>>, err, "fulfilled")
    /\ UNCHANGED <<products, isCreateDialogOpen, isEditDialogOpen,
                   selectedProductForEdit, mounted, createCalls, updateCalls,
                   deleteCalls, issued, serverNextId>>

NextReactivation ==
    \/ Next
    \/ getProductsAgain
    \/ \E l \in FetchResults : getProductsResolveRacing(l)
    \/ \E e \in Errors : getProductsRejectRacing(e)

SpecReactivation == Init /\ [][NextReactivation]_vars

(* ------------------------------ claims -------------------------------- *)

prevProducts == last.prev[1]
prevIsLoading == last.prev[2]
prevError == last.prev[3]
prevIsEditDialogOpen == last.prev[5]
prevSelected == last.prev[6]

\* C1: when the list call issued on activation resolves with the sequence L,
\* the collection is L (same elements, same order), loading is false and
\* error is unset.
C1_LoadSuccess ==
    last.ev = "fetchOk" =>
        /\ products = last.list
        /\ isLoading = FALSE
        /\ error = NoError

C1_Witness ==
    /\ last.ev = "fetchOk"
    /\ Len(products) = 2
    /\ products[1].id > products[2].id

\* C2: when the list call fails with error E, the collection is empty, error
\* is E and loading is false.
C2_LoadFailure ==
    last.ev = "fetchFail" =>
        /\ products = <<>>
        /\ error = last.err
        /\ isLoading = FALSE

C2_Witness ==
    /\ last.ev = "fetchFail"
    /\ error = "E2"
    /\ ~isLoading

\* C3: when the list call settles after the component was torn down, its
\* result is not applied: collection, loading and error stay as they were.
C3_CancelledOnTeardown ==
    (last.ev \in {"fetchOk", "fetchFail"} /\ ~mounted) =>
        /\ products = prevProducts
        /\ isLoading = prevIsLoading
        /\ error = prevError

\* C4: when a create call resolves with the canonical record B, the collection
\* is the collection before the settlement with B appended at the end, and the
\* appended entry carries the id the service assigned, not the payload's.
C4_CreateAppends ==
    last.ev = "createOk" =>
        /\ products = Append(prevProducts, last.result)
        /\ products[Len(products)].id = serverNextId - 1
        /\ products[Len(products)].id # last.payload.id

C4_Witness ==
    /\ last.ev = "createOk"
    /\ Len(prevProducts) >= 1
    /\ Len(products) = Len(prevProducts) + 1

\* C5: when the create call fails the collection is unchanged and the handler's
\* promise is rejected; no submitted payload is in the collection at any time,
\* neither when the call is issued nor while it is in flight.
C5_CreateFailure ==
    /\ last.ev = "createFail" =>
          /\ products = prevProducts
          /\ last.promise = "rejected"
    /\ last.ev = "createIssue" => products = prevProducts
    /\ \A k \in 1..Len(products) : products[k].id # PlaceholderId

C5_Witness ==
    /\ last.ev = "createFail"
    /\ Len(products) >= 1

\* C6: when an update call resolves with the canonical record R, the entry with
\* R's id is replaced by R at its position, the length is unchanged and every
\* other entry keeps its value and position; when the call fails the
\* collection is unchanged.
C6_UpdateInPlace ==
    /\ last.ev = "updateOk" =>
          /\ Len(products) = Len(prevProducts)
          /\ \A k \in 1..Len(prevProducts) :
                products[k] = IF prevProducts[k].id = last.result.id
                              THEN last.result
                              ELSE prevProducts[k]
    /\ last.ev = "updateFail" => products = prevProducts

C6_Witness ==
    /\ last.ev = "updateOk"
    /\ Len(products) >= 2
    /\ products[1] = last.result
    /\ prevProducts[1] # last.result

\* C7: entries are removed only when the delete call resolves with true, and
\* then exactly the entries with the given id go while the others keep value
\* and order; when the call resolves with false or fails the collection is
\* unchanged.
C7_DeleteOnlyOnTrue ==
    /\ last.ev = "deleteTrue" =>
          products = SelectSeq(prevProducts, LAMBDA p : p.id # last.payload.id)
    /\ last.ev \in {"deleteFalse", "deleteFail"} => products = prevProducts
    /\ (\E p \in Range(prevProducts) : p.id \notin IdsOf(products)) =>
          last.ev = "deleteTrue"

C7_Witness ==
    /\ last.ev = "deleteFalse"
    /\ Len(products) >= 2
    /\ last.payload.id \in IdsOf(products)

\* C8: the collection holds at most one entry per id in every reachable state.
C8_UniqueIds == DistinctIds(products)

C8_Witness ==
    /\ Len(products) >= 3
    /\ last.ev = "updateOk"
    /\ last.result.id \in IdsOf(products)

\* C9: a request-edit for id i sets the edit target to the collection's entry
\* with id i and opens the edit dialog exactly when such an entry exists;
\* otherwise edit target and dialog flag are unchanged; the collection is
\* unchanged in both cases.
C9_RequestEdit ==
    last.ev = "requestEdit" =>
        LET i == last.payload.id
            found == i \in IdsOf(prevProducts)
        IN /\ products = prevProducts
           /\ found =>
                 /\ selectedProductForEdit \in Range(prevProducts)
                 /\ selectedProductForEdit.id = i
                 /\ isEditDialogOpen
           /\ ~found =>
                 /\ selectedProductForEdit = prevSelected
                 /\ isEditDialogOpen = prevIsEditDialogOpen

C9_Witness ==
    /\ last.ev = "requestEdit"
    /\ last.payload.id \notin IdsOf(products)
    /\ Len(products) >= 1
    /\ ~isEditDialogOpen

\* C10: whenever the edit target is set and the collection has an entry with
\* its id, the edit target equals that entry.
C10_EditTargetCanonical ==
    (selectedProductForEdit # NoProduct
        /\ selectedProductForEdit.id \in IdsOf(products)) =>
        selectedProductForEdit = Find(products, selectedProductForEdit.id)


\* C11: a failure of the remote call of create, commit-edit or delete is
\* caught inside the handler: the promise the handler returned is never
\* rejected.
C11_FailureContained ==
    last.ev \in {"createFail", "updateFail", "deleteFail"} =>
        last.promise # "rejected"


\* C12: whenever the main view is rendered, the "no products" indicator is
\* shown exactly when the current collection has no entry, also right after a
\* create, update or delete settlement changed the collection.
C12_EmptyState ==
    Screen = "main" => (NoProductsShown <=> products = <<>>)

C12_Witness ==
    /\ Screen = "main"
    /\ last.ev = "deleteTrue"
    /\ prevProducts # <<>>
    /\ products = <<>>
    /\ NoProductsShown


\* C13: when two commit-edits for one id are in flight together and both
\* resolve, the collection entry of that id, after the second resolution, is
\* the canonical record of the call that resolved second, whichever was
\* issued first.
C13_LastSettledWins ==
    (last.ev = "updateOk" /\ last.raced /\ last.result.id \in IdsOf(products)) =>
        /\ Find(products, last.result.id) = last.result
        /\ \A k \in 1..Len(products) :
              products[k].id # last.result.id => products[k] = prevProducts[k]

C13_Witness ==
    /\ last.ev = "updateOk"
    /\ last.raced
    /\ last.result.id \in IdsOf(products)
    /\ Find(prevProducts, last.result.id) # last.result
    /\ Find(products, last.result.id) = last.result


\* C14: every step that changes the collection is the settlement of a remote
\* call with a successful result (list resolved, create resolved, update
\* resolved, delete resolved with true); mounting, issuing a command, a failed
\* settlement, a delete resolved with false, request-edit, the dialog toggles
\* and the teardown leave it as it was.
C14_NeverOptimistic ==
    /\ products # prevProducts =>
          last.ev \in {"fetchOk", "createOk", "updateOk", "deleteTrue"}
    /\ last.ev \in {"mount", "unmount", "createIssue", "updateIssue",
                    "deleteIssue", "createFail", "updateFail", "deleteFail",
                    "deleteFalse", "fetchFail", "requestEdit",
                    "createDialogOpen", "createDialogClose",
                    "editDialogOpen", "editDialogClose"} =>
          products = prevProducts

C14_Witness ==
    /\ last.ev = "deleteIssue"
    /\ last.payload.id \in IdsOf(products)
    /\ BagCardinality(deleteCalls) >= 1
    /\ products = prevProducts


\* C15: each activation issues the list call once, and at no time are two
\* list calls in flight that can both write the collection.
C15_SingleLoadInFlight == fetchCall # "racing"


\* C16: opening or closing the create dialog or the edit dialog changes that
\* dialog's visibility flag only: the edit target, the collection, loading,
\* error and the other dialog's flag are as before, so a closed edit dialog
\* keeps its last target.
C16_DialogToggleFrame ==
    /\ last.ev \in {"createDialogOpen", "createDialogClose"} =>
          /\ isCreateDialogOpen = (last.ev = "createDialogOpen")
          /\ <<products, isLoading, error, isEditDialogOpen, selectedProductForEdit>>
                = <<last.prev[1], last.prev[2], last.prev[3], last.prev[5], last.prev[6]>>
    /\ last.ev \in {"editDialogOpen", "editDialogClose"} =>
          /\ isEditDialogOpen = (last.ev = "editDialogOpen")
          /\ <<products, isLoading, error, isCreateDialogOpen, selectedProductForEdit>>
                = <<last.prev[1], last.prev[2], last.prev[3], last.prev[4], last.prev[6]>>

C16_Witness ==
    /\ last.ev = "editDialogClose"
    /\ prevIsEditDialogOpen
    /\ ~isEditDialogOpen
    /\ selectedProductForEdit # NoProduct


\* C17: loading is true only until the initial list call has settled, and a
\* step that finds it false leaves it false; issuing or settling (success or
\* failure) a create, update or delete command changes neither loading nor
\* error.
C17_SessionFlagsStable ==
    /\ isLoading => fetchCall # "done"
    /\ ~prevIsLoading => ~isLoading
    /\ last.ev \in {"createIssue", "createOk", "createFail",
                    "updateIssue", "updateOk", "updateFail",
                    "deleteIssue", "deleteTrue", "deleteFalse", "deleteFail"} =>
          /\ isLoading = prevIsLoading
          /\ error = prevError

C17_Witness ==
    /\ last.ev = "updateFail"
    /\ mounted
    /\ ~isLoading
    /\ error = NoError
    /\ Screen = "main"


\* C18: an update that resolves never inserts an entry: the ids and the
\* length of the collection are as before, and a result whose id matches no
\* entry leaves the collection unchanged; a delete that resolves with true
\* leaves no entry with its id. So after an update and a successful delete of
\* one id have both settled, in either order, the entry is absent.
C18_NoResurrection ==
    /\ last.ev = "updateOk" =>
          /\ IdsOf(products) = IdsOf(prevProducts)
          /\ Len(products) = Len(prevProducts)
          /\ last.result.id \notin IdsOf(prevProducts) => products = prevProducts
    /\ last.ev = "deleteTrue" => last.payload.id \notin IdsOf(products)

C18_Witness ==
    /\ last.ev = "updateOk"
    /\ last.result.id \notin IdsOf(products)
    /\ selectedProductForEdit.id = last.result.id
    /\ Len(products) >= 1
    /\ issued = 2


\* C19: whenever error is set the collection is empty; the handlers are not
\* rendered then, so no command was issued and no command result can fill
\* the collection while the load error is displayed.
C19_ErrorImpliesEmpty ==
    error # NoError =>
        /\ products = <<>>
        /\ Screen = "error"
        /\ ~ViewShown
        /\ issued = 0

C19_Witness ==
    /\ error = "E1"
    /\ fetchCall = "done"
    /\ mounted
    /\ Screen = "error"
    /\ products = <<>>


\* C20: when the list call settles, loading becomes false and stays false,
\* and from then on exactly one of the two holds: error is set (the error
\* view is rendered), or the main view with the loaded collection is rendered.
C20_LoadTerminates ==
    /\ (fetchCall = "awaiting") ~> (fetchCall = "done" /\ ~isLoading)
    /\ [][fetchCall = "done" => fetchCall' = "done"]_vars
    /\ [](fetchCall = "done" =>
            /\ ~isLoading
            /\ (error # NoError) # (Screen = "main")
            /\ (error # NoError) = (Screen = "error"))

C20_Witness ==
    /\ fetchCall = "done"
    /\ ~isLoading
    /\ last.ev \in {"fetchOk", "fetchFail"}
    /\ (error # NoError) # (Screen = "main")

====
